---------------------------- MODULE Spec2Model ----------------------------
(***************************************************************************)
(* A model of chat_summarizer.py: the line-oriented transcript parser      *)
(* (parse_chat_log), the keyword extractor (extract_keywords), the nature  *)
(* classifier (determine_conversation_nature), the report generator        *)
(* (generate_summary) and the command-line driver (main).                  *)
(*                                                                         *)
(* A Python str is a sequence of one-character strings, so that strip(),   *)
(* startswith(), slicing, join(), lower() and the regular expression are   *)
(* computed character by character as the interpreter computes them.       *)
(***************************************************************************)
EXTENDS Integers, Sequences, FiniteSets, TLC

VARIABLES
    pc,               \* position of the program: see the actions
    argc,             \* len(sys.argv)
    lines,            \* the raw lines the for loop has read from the file so far
    err,              \* the exception the try block caught ("none" when none)
    current_speaker,  \* parse_chat_log local
    current_message,  \* parse_chat_log local (the accumulator)
    user_messages,    \* parse_chat_log local
    ai_messages,      \* parse_chat_log local
    ret_user,         \* main's user_messages: the first list parse_chat_log returned
    ret_ai,           \* main's ai_messages: the second list parse_chat_log returned
    messages,         \* extract_keywords argument
    top_n,            \* extract_keywords argument
    keywords,         \* extract_keywords result
    summary,          \* the value generate_summary returned
    output            \* what was printed, in order

vars == <<pc, argc, lines, err, current_speaker, current_message, user_messages,
          ai_messages, ret_user, ret_ai, messages, top_n, keywords, summary, output>>

(***************************************************************************)
(* Bounds of the model.                                                    *)
(***************************************************************************)
\* lines read from one file
MaxLines == 4
\* messages handed to one extract_keywords call
MaxMsgs == 3
\* largest top_n handed to extract_keywords
MaxTopN == 3
\* largest list length handed to generate_summary directly
MaxCount == 5

(***************************************************************************)
(* Characters and strings.                                                 *)
(***************************************************************************)
None == "None"

LowerLetters ==
    <<"a","b","c","d","e","f","g","h","i","j","k","l","m",
      "n","o","p","q","r","s","t","u","v","w","x","y","z">>

UpperLetters ==
    <<"A","B","C","D","E","F","G","H","I","J","K","L","M",
      "N","O","P","Q","R","S","T","U","V","W","X","Y","Z">>

Digits == {"0","1","2","3","4","5","6","7","8","9"}

Range(s) == {s[i] : i \in DOMAIN s}

\* the characters str.strip() removes
Whitespace == {" ", "\t", "\n", "\r"}

\* [a-zA-Z] of the regular expression
IsAlpha(c) == c \in Range(LowerLetters) \cup Range(UpperLetters)

\* \w of the regular expression: what \b takes for a word character
IsWordChar(c) == IsAlpha(c) \/ c \in Digits \/ c = "_"

\* str.lower() on one character
LowerChar(c) ==
    IF c \in Range(UpperLetters)
    THEN LowerLetters[CHOOSE i \in DOMAIN UpperLetters : UpperLetters[i] = c]
    ELSE c

\* str.lower()
Lower(s) == [i \in DOMAIN s |-> LowerChar(s[i])]

\* str.lstrip(): the suffix starting at the first non-whitespace character
LStrip(s) ==
    LET keep == {i \in DOMAIN s : s[i] \notin Whitespace}
    IN  IF keep = {} THEN <<>>
        ELSE SubSeq(s, CHOOSE i \in keep : \A j \in keep : i <= j, Len(s))

\* str.rstrip(): the prefix ending at the last non-whitespace character
RStrip(s) ==
    LET keep == {i \in DOMAIN s : s[i] \notin Whitespace}
    IN  IF keep = {} THEN <<>>
        ELSE SubSeq(s, 1, CHOOSE i \in keep : \A j \in keep : j <= i)

\* str.strip()
Strip(s) == RStrip(LStrip(s))

\* str.startswith(prefix)
StartsWith(s, prefix) ==
    /\ Len(s) >= Len(prefix)
    /\ SubSeq(s, 1, Len(prefix)) = prefix

\* s[n:]
SliceFrom(s, n) == SubSeq(s, n + 1, Len(s))

RECURSIVE Join(_, _)
\* sep.join(parts)
Join(sep, parts) ==
    IF parts = <<>> THEN <<>>
    ELSE IF Len(parts) = 1 THEN parts[1]
    ELSE parts[1] \o sep \o Join(sep, Tail(parts))

UserTag == <<"U","s","e","r",":">>
AITag == <<"A","I",":">>

(***************************************************************************)
(* parse_chat_log: one iteration of the for loop, and the flush after it.  *)
(***************************************************************************)
\* the locals before the loop
ParseInit ==
    [current_speaker |-> None, current_message |-> <<>>,
     user_messages |-> <<>>, ai_messages |-> <<>>]

\* the first branch of the loop body: a line starting with "User:"
OnUserTag(st, line) ==
    [st EXCEPT
        !.ai_messages =
            IF st.current_speaker = "AI" /\ st.current_message # <<>>
            THEN Append(@, Strip(st.current_message)) ELSE @,
        !.current_speaker = "User",
        !.current_message = Strip(SliceFrom(line, 5))]

\* OnAITag putting the finished user message in front of the list
OnAITagPrepend(st, line) ==
    [st EXCEPT
        !.user_messages =
            IF st.current_speaker = "User" /\ st.current_message # <<>>
            THEN <<Strip(st.current_message)>> \o @ ELSE @,
        !.current_speaker = "AI",
        !.current_message = Strip(SliceFrom(line, 3))]

\* the second branch of the loop body: a line starting with "AI:"
OnAITag(st, line) ==
    [st EXCEPT
        !.user_messages =
            IF st.current_speaker = "User" /\ st.current_message # <<>>
            THEN Append(@, Strip(st.current_message)) ELSE @,
        !.current_speaker = "AI",
        !.current_message = Strip(SliceFrom(line, 3))]

\* OnOtherLine with the test of current_speaker left out
OnOtherLineAlways(st, line) ==
    [st EXCEPT !.current_message = @ \o <<" ">> \o line]

\* the third branch: a continuation line, taken only when a speaker is set;
\* with no speaker the line is dropped
OnOtherLine(st, line) ==
    IF st.current_speaker # None
    THEN [st EXCEPT !.current_message = @ \o <<" ">> \o line]
    ELSE st

\* the loop body on one raw line of the file
ParseLine(st, raw) ==
    LET line == Strip(raw)
    IN  IF StartsWith(line, UserTag) THEN OnUserTag(st, line)
        ELSE IF StartsWith(line, AITag) THEN OnAITag(st, line)
        ELSE OnOtherLine(st, line)

\* FlushLast appending the accumulator as it is, not stripped
FlushLastNoStrip(st) ==
    IF st.current_speaker = "User" /\ st.current_message # <<>>
    THEN [st EXCEPT !.user_messages = Append(@, st.current_message)]
    ELSE IF st.current_speaker = "AI" /\ st.current_message # <<>>
    THEN [st EXCEPT !.ai_messages = Append(@, st.current_message)]
    ELSE st

\* the flush after the loop ("Don't forget to add the last message")
FlushLast(st) ==
    IF st.current_speaker = "User" /\ st.current_message # <<>>
    THEN [st EXCEPT !.user_messages = Append(@, Strip(st.current_message))]
    ELSE IF st.current_speaker = "AI" /\ st.current_message # <<>>
    THEN [st EXCEPT !.ai_messages = Append(@, Strip(st.current_message))]
    ELSE st

\* OnError returning the lists filled so far
OnErrorPartial(st) == <<st.user_messages, st.ai_messages>>

\* what an except clause returns: two fresh empty lists
OnError(st) == <<<<>>, <<>>>>

\* what the normal return gives back
OnReturn(st) == <<st.user_messages, st.ai_messages>>

\* the locals as one record
Locals ==
    [current_speaker |-> current_speaker, current_message |-> current_message,
     user_messages |-> user_messages, ai_messages |-> ai_messages]

(***************************************************************************)
(* extract_keywords.                                                       *)
(***************************************************************************)
\* the {3,} of the regular expression
MinWordLen == 3

\* top_n of the call in generate_summary
SummaryTopN == 5

\* the fixed stop-word set
stop_words == {
    <<"i">>, <<"m","e">>, <<"m","y">>, <<"m","y","s","e","l","f">>, <<"w","e">>,
    <<"o","u","r">>, <<"o","u","r","s">>, <<"o","u","r","s","e","l","v","e","s">>,
    <<"y","o","u">>, <<"y","o","u","r">>, <<"y","o","u","r","s">>,
    <<"y","o","u","r","s","e","l","f">>, <<"y","o","u","r","s","e","l","v","e","s">>,
    <<"h","e">>, <<"h","i","m">>, <<"h","i","s">>, <<"h","i","m","s","e","l","f">>,
    <<"s","h","e">>, <<"h","e","r">>, <<"h","e","r","s">>, <<"h","e","r","s","e","l","f">>,
    <<"i","t">>, <<"i","t","s">>, <<"i","t","s","e","l","f">>, <<"t","h","e","y">>,
    <<"t","h","e","m">>, <<"t","h","e","i","r">>, <<"t","h","e","i","r","s">>,
    <<"t","h","e","m","s","e","l","v","e","s">>, <<"w","h","a","t">>,
    <<"w","h","i","c","h">>, <<"w","h","o">>, <<"w","h","o","m">>, <<"t","h","i","s">>,
    <<"t","h","a","t">>, <<"t","h","e","s","e">>, <<"t","h","o","s","e">>, <<"a","m">>,
    <<"i","s">>, <<"a","r","e">>, <<"w","a","s">>, <<"w","e","r","e">>, <<"b","e">>,
    <<"b","e","e","n">>, <<"b","e","i","n","g">>, <<"h","a","v","e">>, <<"h","a","s">>,
    <<"h","a","d">>, <<"h","a","v","i","n","g">>, <<"d","o">>, <<"d","o","e","s">>,
    <<"d","i","d">>, <<"d","o","i","n","g">>, <<"a">>, <<"a","n">>, <<"t","h","e">>,
    <<"a","n","d">>, <<"b","u","t">>, <<"i","f">>, <<"o","r">>,
    <<"b","e","c","a","u","s","e">>, <<"a","s">>, <<"u","n","t","i","l">>,
    <<"w","h","i","l","e">>, <<"o","f">>, <<"a","t">>, <<"b","y">>, <<"f","o","r">>,
    <<"w","i","t","h">>, <<"a","b","o","u","t">>, <<"a","g","a","i","n","s","t">>,
    <<"b","e","t","w","e","e","n">>, <<"i","n","t","o">>, <<"t","h","r","o","u","g","h">>,
    <<"d","u","r","i","n","g">>, <<"b","e","f","o","r","e">>, <<"a","f","t","e","r">>,
    <<"a","b","o","v","e">>, <<"b","e","l","o","w">>, <<"t","o">>, <<"f","r","o","m">>,
    <<"u","p">>, <<"d","o","w","n">>, <<"i","n">>, <<"o","u","t">>, <<"o","n">>,
    <<"o","f","f">>, <<"o","v","e","r">>, <<"u","n","d","e","r">>, <<"a","g","a","i","n">>,
    <<"f","u","r","t","h","e","r">>, <<"t","h","e","n">>, <<"o","n","c","e">>,
    <<"h","e","r","e">>, <<"t","h","e","r","e">>, <<"w","h","e","n">>,
    <<"w","h","e","r","e">>, <<"w","h","y">>, <<"h","o","w">>, <<"a","l","l">>,
    <<"a","n","y">>, <<"b","o","t","h">>, <<"e","a","c","h">>, <<"f","e","w">>,
    <<"m","o","r","e">>, <<"m","o","s","t">>, <<"o","t","h","e","r">>, <<"s","o","m","e">>,
    <<"s","u","c","h">>, <<"n","o">>, <<"n","o","r">>, <<"n","o","t">>,
    <<"o","n","l","y">>, <<"o","w","n">>, <<"s","a","m","e">>, <<"s","o">>,
    <<"t","h","a","n">>, <<"t","o","o">>, <<"v","e","r","y">>, <<"s">>, <<"t">>,
    <<"c","a","n">>, <<"w","i","l","l">>, <<"j","u","s","t">>, <<"d","o","n">>,
    <<"s","h","o","u","l","d">>, <<"n","o","w">>
    }

Max(S) == CHOOSE x \in S : \A y \in S : y <= x

Min2(a, b) == IF a <= b THEN a ELSE b

\* ' '.join(messages)
AllText(msgs) == Join(<<" ">>, msgs)

\* \b at the gap in front of position i (1 .. Len(s) + 1): exactly one of the
\* two neighbours is a word character
Boundary(s, i) ==
    LET before == i > 1 /\ IsWordChar(s[i - 1])
        after == i <= Len(s) /\ IsWordChar(s[i])
    IN  before # after

RECURSIVE AlphaRun(_, _)
\* the number of consecutive [a-zA-Z] characters from position i on
AlphaRun(s, i) ==
    IF i <= Len(s) /\ IsAlpha(s[i]) THEN 1 + AlphaRun(s, i + 1) ELSE 0

\* the match of \b[a-zA-Z]{3,}\b at position i: its length, 0 when it fails.
\* The quantifier is greedy and backs off until the closing \b holds.
MatchAt(s, i) ==
    LET lens == {k \in MinWordLen..AlphaRun(s, i) : Boundary(s, i + k)}
    IN  IF Boundary(s, i) /\ lens # {} THEN Max(lens) ELSE 0

RECURSIVE FindAll(_, _)
\* re.findall from position i: leftmost matches, not overlapping
FindAll(s, i) ==
    IF i > Len(s) THEN <<>>
    ELSE LET k == MatchAt(s, i)
         IN  IF k > 0 THEN <<SubSeq(s, i, i + k - 1)>> \o FindAll(s, i + k)
             ELSE FindAll(s, i + 1)

\* words = re.findall(r'\b[a-zA-Z]{3,}\b', all_text.lower())
Words(msgs) == FindAll(Lower(AllText(msgs)), 1)

\* FilterStop keeping every word
FilterStopNone(words) == words

\* [word for word in words if word not in stop_words]
FilterStop(words) == SelectSeq(words, LAMBDA w : w \notin stop_words)

\* filtered_words
FilteredWords(msgs) == FilterStop(Words(msgs))

\* one update of the Counter: a known word's count goes up in place, a new
\* word is inserted last (a dict keeps insertion order)
CounterAdd(items, w) ==
    IF \E i \in DOMAIN items : items[i][1] = w
    THEN [i \in DOMAIN items |->
            IF items[i][1] = w THEN <<w, items[i][2] + 1>> ELSE items[i]]
    ELSE Append(items, <<w, 1>>)

RECURSIVE CounterFrom(_, _)
CounterFrom(items, words) ==
    IF words = <<>> THEN items
    ELSE CounterFrom(CounterAdd(items, Head(words)), Tail(words))

\* Counter(filtered_words): its items, in insertion order
Counter(words) == CounterFrom(<<>>, words)

RECURSIVE SortedDesc(_)
\* sorted(items, key=count, reverse=True): stable, so among equal counts the
\* earlier item comes first
SortedDesc(items) ==
    IF items = <<>> THEN <<>>
    ELSE LET top == Max({items[i][2] : i \in DOMAIN items})
             at == CHOOSE i \in DOMAIN items :
                     /\ items[i][2] = top
                     /\ \A j \in 1..(i - 1) : items[j][2] # top
             rest == [i \in 1..(Len(items) - 1) |->
                        IF i < at THEN items[i] ELSE items[i + 1]]
         IN  <<items[at]>> \o SortedDesc(rest)

\* MostCommon cutting the items in insertion order, not sorted
MostCommonUnsorted(items, n) ==
    IF n <= 0 THEN <<>>
    ELSE SubSeq(items, 1, Min2(n, Len(items)))

\* Counter.most_common(n) with n given: heapq.nlargest(n, items, key=count),
\* which is sorted(items, key=count, reverse=True)[:n] and empty for n <= 0
MostCommon(items, n) ==
    IF n <= 0 THEN <<>>
    ELSE SubSeq(SortedDesc(items), 1, Min2(n, Len(items)))

\* extract_keywords(messages, top_n)
ExtractKeywords(msgs, n) == MostCommon(Counter(FilteredWords(msgs)), n)

(***************************************************************************)
(* determine_conversation_nature and generate_summary.                     *)
(***************************************************************************)
\* [keyword for keyword, _ in keywords]
Topics(kws) == [i \in DOMAIN kws |-> kws[i][1]]

\* ', '.join(...) of the keywords
KeywordStr(kws) == Join(<<",", " ">>, Topics(kws))

\* determine_conversation_nature(keywords): the sentence, as its fixed text
\* and the interpolated topic string
DetermineConversationNature(kws) ==
    IF kws = <<>>
    THEN [text |-> "Unable to determine the nature of the conversation.",
          topic_str |-> <<>>]
    ELSE [text |-> "The conversation was mainly about {topic_str}.",
          topic_str |-> KeywordStr(kws)]

\* Exchanges adding one for a surplus on either side
ExchangesSymmetric(u, a) ==
    LET pairs == Min2(u, a)
    IN  IF u # a THEN pairs + 1 ELSE pairs

\* exchanges: min of the two lengths, plus one when user messages are in surplus
Exchanges(u, a) ==
    LET pairs == Min2(u, a)
    IN  IF u > a THEN pairs + 1 ELSE pairs

\* all_messages = user_messages + ai_messages
AllMessages(um, am) == um \o am

\* top_keywords = extract_keywords(all_messages, top_n=5)
TopKeywords(um, am) == ExtractKeywords(AllMessages(um, am), SummaryTopN)

\* generate_summary(user_messages, ai_messages): the report, one field per
\* interpolated value, in the order the lines are written; keywords_line is
\* the optional "Most common keywords" line (absent: the empty sequence)
GenerateSummary(um, am) ==
    LET exchanges == Exchanges(Len(um), Len(am))
        top_keywords == TopKeywords(um, am)
        keyword_str == KeywordStr(top_keywords)
    IN  [header |-> "=== Chat Summary ===",
         total_messages |-> Len(um) + Len(am),
         user_messages |-> Len(um),
         ai_messages |-> Len(am),
         total_exchanges |-> exchanges,
         keywords_line |-> IF top_keywords # <<>> THEN <<keyword_str>> ELSE <<>>,
         narrative_exchanges |-> exchanges,
         narrative_nature |-> DetermineConversationNature(top_keywords),
         narrative_keywords |-> keyword_str]

(***************************************************************************)
(* Inputs.                                                                 *)
(***************************************************************************)
\* all sequences over S of length at most n
SeqsUpTo(S, n) == UNION {[1..k -> S] : k \in 0..n}

\* the raw lines a file is made of, line terminator included
RawLines == {
    <<"U","s","e","r",":"," ","a","\n">>,       \* "User: a"
    <<"U","s","e","r",":","\n">>,               \* "User:" with no text
    <<"A","I",":"," ","b","\n">>,               \* "AI: b"
    <<"A","I",":","\n">>,                       \* "AI:" with no text
    <<"\n">>,                                   \* a blank line
    <<" ","c"," ","\n">>,                       \* " c ": text with blanks around it
    <<"\t","U","s","e","r",":","d"," ","\n">>,  \* an indented "User:d "
    <<"u","s","e","r",":"," ","e","\n">>        \* "user: e": not a tag
    }

\* the messages handed to extract_keywords directly
KeywordMsgs == {
    <<"c","a","t">>,
    <<"D","o","g"," ","c","a","t">>,
    <<"t","h","e"," ","o","w","l">>,
    <<"c","a","t","2">>,
    <<"_","d","o","g">>,
    <<>>,
    <<"a","n"," ","o","w","l",",","D","O","G">>
    }

\* the messages handed to generate_summary directly
SummaryMsgs == {<<"c","a","t">>, <<"D","o","g">>}

\* the exceptions the try block of parse_chat_log can meet
OpenErrors == {"FileNotFoundError", "Exception"}

\* the print of the except clause that catches e
ErrorMessage(e) ==
    IF e = "FileNotFoundError" THEN "Error: File '{file_path}' not found."
    ELSE "Error reading file: {e}"

(***************************************************************************)
(* The program: main, with parse_chat_log run line by line.                *)
(***************************************************************************)
Init ==
    /\ pc = "main"
    /\ argc = 0
    /\ lines = <<>>
    /\ err = "none"
    /\ current_speaker = None
    /\ current_message = <<>>
    /\ user_messages = <<>>
    /\ ai_messages = <<>>
    /\ ret_user = <<>>
    /\ ret_ai = <<>>
    /\ messages = <<>>
    /\ top_n = 0
    /\ keywords = <<>>
    /\ summary = <<>>
    /\ output = <<>>

\* main with a wrong number of arguments: the usage line, and nothing else
MainUsage(n) ==
    /\ pc = "main"
    /\ n # 2
    /\ argc' = n
    /\ output' = Append(output, "Usage: python chat_summarizer.py <chat_log_file>")
    /\ pc' = "done"
    /\ UNCHANGED <<lines, err, current_speaker, current_message, user_messages,
                   ai_messages, ret_user, ret_ai, messages, top_n, keywords, summary>>

\* main with one argument calls parse_chat_log, whose locals are set up
MainParse ==
    /\ pc = "main"
    /\ argc' = 2
    /\ current_speaker' = ParseInit.current_speaker
    /\ current_message' = ParseInit.current_message
    /\ user_messages' = ParseInit.user_messages
    /\ ai_messages' = ParseInit.ai_messages
    /\ pc' = "open"
    /\ UNCHANGED <<lines, err, ret_user, ret_ai, messages, top_n, keywords,
                   summary, output>>

\* open() succeeds
OpenOk ==
    /\ pc = "open"
    /\ pc' = "read"
    /\ UNCHANGED <<argc, lines, err, current_speaker, current_message,
                   user_messages, ai_messages, ret_user, ret_ai, messages, top_n,
                   keywords, summary, output>>

\* an exception e inside the try block: its except clause prints and returns
Caught(e) ==
    /\ err' = e
    /\ output' = Append(output, ErrorMessage(e))
    /\ ret_user' = OnError(Locals)[1]
    /\ ret_ai' = OnError(Locals)[2]
    /\ pc' = "parsed"
    /\ UNCHANGED <<argc, lines, current_speaker, current_message, user_messages,
                   ai_messages, messages, top_n, keywords, summary>>

\* open() raises: the file is missing, or cannot be opened for another reason
OpenFails(e) ==
    /\ pc = "open"
    /\ Caught(e)

\* one iteration of the for loop on the next line of the file
ReadLine(raw) ==
    /\ pc = "read"
    /\ Len(lines) < MaxLines
    /\ lines' = Append(lines, raw)
    /\ LET st == ParseLine(Locals, raw)
       IN  /\ current_speaker' = st.current_speaker
           /\ current_message' = st.current_message
           /\ user_messages' = st.user_messages
           /\ ai_messages' = st.ai_messages
    /\ UNCHANGED <<pc, argc, err, ret_user, ret_ai, messages, top_n, keywords,
                   summary, output>>

\* reading the next line raises (a decoding error, an I/O error)
ReadFails ==
    /\ pc = "read"
    /\ Caught("Exception")

\* the file is exhausted: the last message is flushed and the lists returned
EndOfFile ==
    /\ pc = "read"
    /\ LET st == FlushLast(Locals)
       IN  /\ user_messages' = st.user_messages
           /\ ai_messages' = st.ai_messages
           /\ ret_user' = OnReturn(st)[1]
           /\ ret_ai' = OnReturn(st)[2]
    /\ pc' = "parsed"
    /\ UNCHANGED <<argc, lines, err, current_speaker, current_message, messages,
                   top_n, keywords, summary, output>>

\* main: "if not user_messages and not ai_messages"
NothingParsed(um, am) == um = <<>> /\ am = <<>>

\* main with two empty lists: the "No messages" line, and no summary
MainNoMessages ==
    /\ pc = "parsed"
    /\ NothingParsed(ret_user, ret_ai)
    /\ output' = Append(output, "No messages found or error reading file.")
    /\ pc' = "done"
    /\ UNCHANGED <<argc, lines, err, current_speaker, current_message,
                   user_messages, ai_messages, ret_user, ret_ai, messages, top_n,
                   keywords, summary>>

\* the call generate_summary(um, am), with the extract_keywords call inside it
Summarize(um, am) ==
    /\ messages' = AllMessages(um, am)
    /\ top_n' = SummaryTopN
    /\ keywords' = TopKeywords(um, am)
    /\ summary' = <<GenerateSummary(um, am)>>

\* main with a message: the summary is generated and printed
MainSummary ==
    /\ pc = "parsed"
    /\ ~NothingParsed(ret_user, ret_ai)
    /\ Summarize(ret_user, ret_ai)
    /\ output' = Append(output, "summary")
    /\ pc' = "done"
    /\ UNCHANGED <<argc, lines, err, current_speaker, current_message,
                   user_messages, ai_messages, ret_user, ret_ai>>

Next ==
    \/ \E n \in 1..3 : MainUsage(n)
    \/ MainParse
    \/ OpenOk
    \/ \E e \in OpenErrors : OpenFails(e)
    \/ \E raw \in RawLines : ReadLine(raw)
    \/ ReadFails
    \/ EndOfFile
    \/ MainNoMessages
    \/ MainSummary

Spec == Init /\ [][Next]_vars

(***************************************************************************)
(* generate_summary and extract_keywords called on their own, on inputs    *)
(* drawn from bounded sets.                                                *)
(***************************************************************************)
InitCalls ==
    /\ pc \in {"generate_summary", "extract_keywords"}
    /\ argc = 0
    /\ lines = <<>>
    /\ err = "none"
    /\ current_speaker = None
    /\ current_message = <<>>
    /\ user_messages = <<>>
    /\ ai_messages = <<>>
    /\ ret_user \in (IF pc = "generate_summary"
                     THEN SeqsUpTo(SummaryMsgs, MaxCount) ELSE {<<>>})
    /\ ret_ai \in (IF pc = "generate_summary"
                   THEN SeqsUpTo(SummaryMsgs, MaxCount) ELSE {<<>>})
    /\ messages \in (IF pc = "extract_keywords"
                     THEN SeqsUpTo(KeywordMsgs, MaxMsgs) ELSE {<<>>})
    /\ top_n = 0
    /\ keywords = <<>>
    /\ summary = <<>>
    /\ output = <<>>

\* generate_summary(ret_user, ret_ai)
CallGenerateSummary ==
    /\ pc = "generate_summary"
    /\ Summarize(ret_user, ret_ai)
    /\ pc' = "summarized"
    /\ UNCHANGED <<argc, lines, err, current_speaker, current_message,
                   user_messages, ai_messages, ret_user, ret_ai, output>>

\* extract_keywords(messages, n)
CallExtractKeywords(n) ==
    /\ pc = "extract_keywords"
    /\ top_n' = n
    /\ keywords' = ExtractKeywords(messages, n)
    /\ pc' = "extracted"
    /\ UNCHANGED <<argc, lines, err, current_speaker, current_message,
                   user_messages, ai_messages, ret_user, ret_ai, messages,
                   summary, output>>

NextCalls ==
    \/ CallGenerateSummary
    \/ \E n \in (-1)..MaxTopN : CallExtractKeywords(n)

SpecCalls == InitCalls /\ [][NextCalls]_vars

(***************************************************************************)
(* Reference notions the properties are stated with: the transcript seen   *)
(* as segments, each a tag line followed by its continuation lines.        *)
(***************************************************************************)
IsUserLine(raw) == StartsWith(Strip(raw), UserTag)

IsAILine(raw) == ~IsUserLine(raw) /\ StartsWith(Strip(raw), AITag)

IsTagLine(raw) == IsUserLine(raw) \/ IsAILine(raw)

SpeakerOf(raw) == IF IsUserLine(raw) THEN "User" ELSE "AI"

\* the positions of the tag lines of ls
TagPositions(ls) == {i \in DOMAIN ls : IsTagLine(ls[i])}

\* the last line of the segment the tag line at position i opens
SegEnd(ls, i) ==
    LET later == {j \in TagPositions(ls) : j > i}
    IN  IF later = {} THEN Len(ls) ELSE Max({j \in i..Len(ls) : \A k \in later : j < k})

\* the text after the tag line's prefix, trimmed
TextAfterTag(raw) ==
    LET line == Strip(raw)
    IN  Strip(SliceFrom(line, IF IsUserLine(raw) THEN Len(UserTag) ELSE Len(AITag)))

\* the segment's parts: the tag line's text, then each continuation line trimmed
SegParts(ls, i) ==
    <<TextAfterTag(ls[i])>> \o [k \in 1..(SegEnd(ls, i) - i) |-> Strip(ls[i + k])]

\* the segment's message: its parts joined with one space, the whole trimmed
SegText(ls, i) == Strip(Join(<<" ">>, SegParts(ls, i)))

RECURSIVE SegTextsFrom(_, _, _)
SegTextsFrom(sp, ls, i) ==
    IF i > Len(ls) THEN <<>>
    ELSE IF IsTagLine(ls[i]) /\ SpeakerOf(ls[i]) = sp
    THEN <<SegText(ls, i)>> \o SegTextsFrom(sp, ls, i + 1)
    ELSE SegTextsFrom(sp, ls, i + 1)

\* the messages of speaker sp's segments, in the order of their tag lines
SegTexts(sp, ls) == SegTextsFrom(sp, ls, 1)

\* the same, up to and excluding the segment still open (the last one)
ClosedSegTexts(sp, ls) ==
    IF TagPositions(ls) = {} THEN <<>>
    ELSE SegTexts(sp, SubSeq(ls, 1, Max(TagPositions(ls)) - 1))

RECURSIVE IsSubseq(_, _)
\* a is b with some elements left out, the order kept
IsSubseq(a, b) ==
    IF a = <<>> THEN TRUE
    ELSE IF b = <<>> THEN FALSE
    ELSE IF Head(a) = Head(b) THEN IsSubseq(Tail(a), Tail(b))
    ELSE IsSubseq(a, Tail(b))

NonEmpty(ms) == SelectSeq(ms, LAMBDA m : m # <<>>)

Trimmed(m) == m = <<>> \/ (m[1] \notin Whitespace /\ m[Len(m)] \notin Whitespace)

\* parse_chat_log has returned normally
Returned == pc \in {"parsed", "done"} /\ argc = 2 /\ err = "none"

RECURSIVE RunLines(_, _)
\* the loop run over the lines ls from the locals st
RunLines(st, ls) ==
    IF ls = <<>> THEN st ELSE RunLines(ParseLine(st, Head(ls)), Tail(ls))

\* ls without the lines in front of its first tag line
DropLeadingUntagged(ls) ==
    IF TagPositions(ls) = {} THEN <<>>
    ELSE LET first == CHOOSE i \in TagPositions(ls) : \A j \in TagPositions(ls) : i <= j
         IN  SubSeq(ls, first, Len(ls))

(***************************************************************************)
(* C1.  A message with non-empty text that a tag line opened is appended   *)
(* to its speaker's list when the next tag line, of either speaker, or the *)
(* end of input is reached, and not before: while reading, the non-empty   *)
(* stored messages are exactly those of the closed segments, and on return *)
(* those of all segments.                                                  *)
(***************************************************************************)
C1_FinalizedOnTagOrEnd ==
    /\ pc = "read" =>
        /\ NonEmpty(user_messages) = NonEmpty(ClosedSegTexts("User", lines))
        /\ NonEmpty(ai_messages) = NonEmpty(ClosedSegTexts("AI", lines))
    /\ Returned =>
        /\ NonEmpty(ret_user) = NonEmpty(SegTexts("User", lines))
        /\ NonEmpty(ret_ai) = NonEmpty(SegTexts("AI", lines))

(***************************************************************************)
(* C2.  The messages of each list are messages of that speaker's segments, *)
(* in the order of the tag lines that opened them: each list is the        *)
(* sequence of that speaker's segment messages with some left out.         *)
(***************************************************************************)
C2_OrderAndSpeaker ==
    /\ IsSubseq(user_messages, SegTexts("User", lines))
    /\ IsSubseq(ai_messages, SegTexts("AI", lines))
    /\ pc \in {"parsed", "done"} =>
        /\ IsSubseq(ret_user, SegTexts("User", lines))
        /\ IsSubseq(ret_ai, SegTexts("AI", lines))
    /\ Returned => ret_user = user_messages /\ ret_ai = ai_messages

\* two user messages and an AI message were returned, the user messages differing
C2_Witness ==
    /\ Returned
    /\ Len(ret_user) >= 2
    /\ ret_user[1] # ret_user[2]
    /\ ret_ai # <<>>

(***************************************************************************)
(* C3.  Every stored message is the text after its tag line's prefix and   *)
(* its continuation lines, each trimmed, joined with one space, with no    *)
(* whitespace left at either end.                                          *)
(***************************************************************************)
C3_JoinedAndTrimmed ==
    /\ \A k \in DOMAIN user_messages :
        /\ \E i \in TagPositions(lines) :
            SpeakerOf(lines[i]) = "User" /\ user_messages[k] = SegText(lines, i)
        /\ Trimmed(user_messages[k])
    /\ \A k \in DOMAIN ai_messages :
        /\ \E i \in TagPositions(lines) :
            SpeakerOf(lines[i]) = "AI" /\ ai_messages[k] = SegText(lines, i)
        /\ Trimmed(ai_messages[k])

\* a returned message made of a tag line's text and two continuation lines,
\* one of them blank
C3_Witness ==
    /\ Returned
    /\ \E k \in DOMAIN ret_user :
        ret_user[k] = <<"a", " ", " ", "c">> \/ ret_user[k] = <<"a", " ", "c">>
    /\ \E i \in DOMAIN lines : Strip(lines[i]) = <<>>

(***************************************************************************)
(* C4.  The lines in front of the first tag line change nothing: the       *)
(* locals stay as initialised while no tag line has been read, and the     *)
(* locals and the returned lists are those of the input without them.      *)
(***************************************************************************)
C4_LeadingLinesDropped ==
    /\ (pc = "read" /\ TagPositions(lines) = {}) => Locals = ParseInit
    /\ pc = "read" => Locals = RunLines(ParseInit, DropLeadingUntagged(lines))
    /\ Returned =>
        <<ret_user, ret_ai>> =
            OnReturn(FlushLast(RunLines(ParseInit, DropLeadingUntagged(lines))))

\* leading untagged lines, one of them with text, then a message that is returned
C4_Witness ==
    /\ Returned
    /\ Len(lines) >= 3
    /\ ~IsTagLine(lines[1]) /\ Strip(lines[1]) # <<>>
    /\ ~IsTagLine(lines[2])
    /\ ret_user # <<>>

\* the line main prints for two empty lists
NoMessagesLine == "No messages found or error reading file."

(***************************************************************************)
(* C5.  An exception in the try block, at open or at any line, is caught:  *)
(* its message is printed and two empty lists are returned, whatever was   *)
(* appended before; main then prints the "No messages" line and no         *)
(* summary.  main prints a summary exactly when a list is non-empty.       *)
(***************************************************************************)
C5_ErrorsGiveEmptyLists ==
    /\ err # "none" =>
        /\ pc \in {"parsed", "done"}
        /\ ret_user = <<>> /\ ret_ai = <<>>
        /\ output[1] = ErrorMessage(err)
    /\ (pc = "done" /\ err # "none") =>
        /\ output = <<ErrorMessage(err), NoMessagesLine>>
        /\ summary = <<>>
    /\ (pc = "done" /\ argc = 2) =>
        /\ ("summary" \in Range(output)) <=> (ret_user # <<>> \/ ret_ai # <<>>)
        /\ (summary # <<>>) <=> (ret_user # <<>> \/ ret_ai # <<>>)
        /\ (NoMessagesLine \in Range(output)) <=> (ret_user = <<>> /\ ret_ai = <<>>)

\* a read error after a message was appended, and main has finished
C5_Witness ==
    /\ pc = "done"
    /\ err = "Exception"
    /\ user_messages # <<>>
    /\ ai_messages # <<>>
    /\ NoMessagesLine \in Range(output)

(***************************************************************************)
(* C6.  exchanges = min(u, a) + (1 if u > a else 0): with u > a it is      *)
(* a + 1 however large the surplus, otherwise u; the "Total exchanges"     *)
(* line and the narrative line carry the same value.                       *)
(***************************************************************************)
C6_Exchanges ==
    pc = "summarized" =>
        LET u == Len(ret_user)
            a == Len(ret_ai)
            s == summary[1]
        IN  /\ s.total_exchanges = (IF u > a THEN a + 1 ELSE u)
            /\ s.narrative_exchanges = s.total_exchanges
            /\ (u = 3 /\ a = 3) => s.total_exchanges = 3
            /\ (u = 4 /\ a = 3) => s.total_exchanges = 4
            /\ (u = 2 /\ a = 5) => s.total_exchanges = 2

\* a surplus of three user messages counted as one exchange
C6_Witness ==
    /\ pc = "summarized"
    /\ Len(ret_user) = 5
    /\ Len(ret_ai) = 2
    /\ summary[1].total_exchanges = 3

(***************************************************************************)
(* Reference notions for the keyword properties.                           *)
(***************************************************************************)
\* an extract_keywords call has returned
Extracted == pc \in {"extracted", "summarized"}

\* the number of occurrences of w in the sequence ws
Occurrences(ws, w) == Cardinality({i \in DOMAIN ws : ws[i] = w})

\* the position of the first occurrence of w in ws
FirstAt(ws, w) == CHOOSE i \in DOMAIN ws : ws[i] = w /\ \A j \in 1..(i - 1) : ws[j] # w

\* the item <<w, c>> ranks before <<v, d>>: a larger count, or the same count
\* and an earlier first appearance in ws
RanksBefore(ws, w, c, v, d) == c > d \/ (c = d /\ FirstAt(ws, w) < FirstAt(ws, v))

\* the maximal runs of ASCII letters of s that are at least MinWordLen long,
\* every other character being a separator
LetterRunStarts(s) ==
    {i \in DOMAIN s : IsAlpha(s[i]) /\ (i = 1 \/ ~IsAlpha(s[i - 1]))}

RECURSIVE LetterRunsFrom(_, _)
LetterRunsFrom(s, i) ==
    IF i > Len(s) THEN <<>>
    ELSE IF i \in LetterRunStarts(s)
    THEN LET n == AlphaRun(s, i)
         IN  (IF n >= MinWordLen THEN <<SubSeq(s, i, i + n - 1)>> ELSE <<>>)
                \o LetterRunsFrom(s, i + n)
    ELSE LetterRunsFrom(s, i + 1)

LetterRuns(s) == LetterRunsFrom(s, 1)

(***************************************************************************)
(* C7.  Every returned word is made of lowercase letters only, is at least *)
(* 3 letters long and is no stop word, and its count is the number of its  *)
(* occurrences in the filtered token stream.                               *)
(***************************************************************************)
C7_KeywordsWellFormed ==
    Extracted =>
        \A i \in DOMAIN keywords :
            LET w == keywords[i][1]
            IN  /\ \A k \in DOMAIN w : w[k] \in Range(LowerLetters)
                /\ Len(w) >= 3
                /\ w \notin stop_words
                /\ keywords[i][2] = Occurrences(FilteredWords(messages), w)
                /\ keywords[i][2] >= 1

\* keywords came back from a text holding a stop word, a short word and an
\* uppercase letter, one of them counted twice
C7_Witness ==
    /\ pc = "extracted"
    /\ \E i \in DOMAIN keywords : keywords[i][2] = 2
    /\ \E w \in Range(Words(messages)) : w \in stop_words
    /\ \E k \in DOMAIN messages :
        \E j \in DOMAIN messages[k] : messages[k][j] \in Range(UpperLetters)
    /\ \E j \in LetterRunStarts(AllText(messages)) :
        AlphaRun(AllText(messages), j) < MinWordLen

(***************************************************************************)
(* C8.  The result holds min(top_n, number of distinct tokens) entries     *)
(* (none for top_n <= 0 or no messages), each a token with its count,      *)
(* ranked by descending count and, among equal counts, by first appearance *)
(* in the token stream; every token left out ranks after every entry.  In  *)
(* generate_summary the stream is that of the user messages followed by    *)
(* the AI messages, with top_n = 5.                                        *)
(***************************************************************************)
C8_TopNRanked ==
    Extracted =>
        LET ws == FilteredWords(messages)
            n == IF top_n > 0 THEN top_n ELSE 0
            returned == {keywords[i][1] : i \in DOMAIN keywords}
        IN  /\ Len(keywords) = Min2(n, Cardinality(Range(ws)))
            /\ Len(keywords) <= n
            /\ (top_n <= 0 \/ messages = <<>>) => keywords = <<>>
            /\ \A i \in DOMAIN keywords :
                /\ keywords[i][1] \in Range(ws)
                /\ keywords[i][2] = Occurrences(ws, keywords[i][1])
            /\ \A i, j \in DOMAIN keywords :
                i < j => RanksBefore(ws, keywords[i][1], keywords[i][2],
                                         keywords[j][1], keywords[j][2])
            /\ \A i \in DOMAIN keywords : \A v \in Range(ws) \ returned :
                RanksBefore(ws, keywords[i][1], keywords[i][2], v, Occurrences(ws, v))
            /\ pc = "summarized" =>
                /\ messages = ret_user \o ret_ai
                /\ top_n = 5
                /\ summary[1].narrative_keywords = KeywordStr(keywords)

\* a result cut to top_n, its entries reordered by count against the order of
\* first appearance, with a tie between a returned and a left-out token
C8_Witness ==
    /\ pc = "extracted"
    /\ top_n = 2
    /\ Len(keywords) = 2
    /\ LET ws == FilteredWords(messages)
       IN  /\ Cardinality(Range(ws)) = 3
           /\ FirstAt(ws, keywords[1][1]) > 1
           /\ \E v \in Range(ws) : v # keywords[2][1] /\ Occurrences(ws, v) = keywords[2][2]

(***************************************************************************)
(* C9.  The tokens are the maximal runs of ASCII letters, at least 3 long, *)
(* of the lowercased text: a digit or an underscore separates like any     *)
(* other non-letter.                                                       *)
(***************************************************************************)
C9_NonLettersSeparate ==
    pc = "extracted" => Words(messages) = LetterRuns(Lower(AllText(messages)))

(***************************************************************************)
(* C10.  No stored message is the empty string.                            *)
(***************************************************************************)
C10_NoEmptyMessage ==
    /\ \A k \in DOMAIN user_messages : user_messages[k] # <<>>
    /\ \A k \in DOMAIN ai_messages : ai_messages[k] # <<>>
    /\ \A k \in DOMAIN ret_user : ret_user[k] # <<>>
    /\ \A k \in DOMAIN ret_ai : ret_ai[k] # <<>>

=============================================================================
